---- MODULE Spec2Model ----
\* Model of the job scheduler of src/scheduler/scheduler.py (ContentScheduler):
\* the registry (self.jobs), the execution history (self.job_history), the
\* APScheduler job store the facade drives, the executor pool and the event
\* listener with its retry handling.
EXTENDS Integers, Sequences, FiniteSets, TLC

\* ---------------------------------------------------------------- bounds
\* Number of firings the scheduler thread processes in one behaviour.
MaxSubmits == 4
\* Seconds of the interval trigger the callers register (seconds=IntervalSecs).
IntervalSecs == 120
\* A date job is registered with run_date = now + DateDelay.
DateDelay == 60
\* Largest limit passed to get_job_history.
MaxLimit == 3
\* Seconds of the interval of a job that fires every second (seconds=FastSecs).
FastSecs == 1
\* The rate limit configuration under test:
\* RateLimitConfig(max_requests=MaxRequests, time_window=TimeWindow,
\*                 block_duration=BlockDuration), no burst limit.
MaxRequests == 2
TimeWindow == 3
BlockDuration == 2
\* Calls of the rate limited function that are followed.
MaxCalls == 4
\* Entries of the review history that are followed.
MaxReviewed == 4
\* Entries the review history keeps.
ReviewHistoryCap == 1000
\* RetryConfig(max_attempts=MaxAttempts) of the retrying wrapper under test.
MaxAttempts == 3
\* RetryConfig defaults: base_delay, max_delay (seconds), exponential_base.
base_delay == 1
max_delay == 60
exponential_base == 2

\* ------------------------------------------------------ program constants
max_workers == 3
max_instances == 1
misfire_grace_time == 300
max_retries == 3
BackoffBase == 60
BackoffCap == 3600
HistoryCap == 1000

\* The job ids callers register; every job has derived retry ids of its own.
JobIds == {"gen"}
NoException == "None"
ErrorMessage == "boom"
TriggerTypes == {"interval", "date"}

\* The keyword arguments callers pass as **trigger_args (a dict: key -> value).
NoArgs == [k \in {} |-> 0]
TriggerArgs(t) ==
    {NoArgs, [seconds |-> IntervalSecs], [run_date |-> t + DateDelay]}
\* Interval arguments whose time units are given as zero, and arguments that
\* mix the keywords of both triggers.
ZeroArgs ==
    {NoArgs, [seconds |-> 0], [minutes |-> 0], [seconds |-> 0, hours |-> 0],
     [seconds |-> 0, run_date |-> DateDelay]}

VARIABLES
    running,      \* self.scheduler.running
    jobs,         \* self.jobs: job_id -> ScheduledJob
    job_history,  \* self.job_history
    store,        \* the APScheduler job store: id -> job (trigger, next_run_time,
                  \* func); times are in seconds relative to the present instant
    execs,        \* executions submitted to the thread pool, oldest first:
                  \* queued, or being run by a worker
    nsub,         \* firings processed so far
    pool,         \* the executor's thread pool: "open", "draining" (the caller
                  \* of stop is blocked in shutdown(wait=True)) or "shutdown"
    last,         \* the operation that made the last step, and what it returned
    handlers,     \* calls of _job_executed_listener in progress on worker
                  \* threads, each with the position it has reached
    limiter,      \* a RateLimiter: _requests (identifier -> request times,
                  \* oldest first) and _blocked (identifier -> blocked until);
                  \* times are in seconds relative to the present instant
    ran,          \* identifier -> the times at which the function decorated
                  \* with rate_limit ran for it
    bot,          \* the TelegramReviewBot the web interface shares: reviews
                  \* (review id -> status, calls of its callback, pending
                  \* modification context) and review_history (the status of
                  \* each entry)
    retry         \* a call of a function wrapped by retry_on_exception: the
                  \* wrapper's position, its loop variable, what each call of
                  \* the function did so far, the tenths of a second slept
                  \* after each failed call, and how the wrapper ended

vars == <<running, jobs, job_history, store, execs, nsub, pool, last, handlers,
         limiter, ran, retry, bot>>

\* The state outside the scheduler facade and its engine.
aside == <<handlers, limiter, ran, retry, bot>>

\* The identifiers callers pass to the rate limiter.
Identifiers == {"alice"}
\* The limit type the callers use.
TestLimit == [max_requests |-> MaxRequests, time_window |-> TimeWindow,
              burst_limit |-> 0, block_duration |-> BlockDuration]
\* RateLimiter.__init__: no requests, nobody blocked.
NewLimiter == [requests |-> [i \in Identifiers |-> <<>>], blocked |-> [i \in {} |-> 0]]

\* No call of the retrying wrapper has been made.
NotCalled == [pc |-> "idle", attempt |-> 0, calls |-> <<>>, slept |-> <<>>,
              outcome |-> <<>>]

\* TelegramReviewBot.__init__: no reviews, no history.
ReviewIds == {"review_1"}
NewBot == [reviews |-> [r \in {} |-> 0], review_history |-> <<>>]

AsideInit ==
    /\ handlers = <<>>
    /\ limiter = NewLimiter
    /\ ran = [i \in Identifiers |-> <<>>]
    /\ retry = NotCalled
    /\ bot = NewBot

\* datetime.now(): every time the state holds is kept relative to the present
\* instant, so the present is the origin of the time axis.
now == 0

Min(a, b) == IF a <= b THEN a ELSE b
Max(a, b) == IF a >= b THEN a ELSE b

\* ------------------------------------------------------------- data model
\* ScheduledJob.__init__: a fresh registry entry.
ScheduledJob(trigger_type, trigger_args) ==
    [status |-> "pending", run_count |-> 0, error_count |-> 0,
     last_error |-> NoException, trigger_type |-> trigger_type,
     trigger_args |-> trigger_args]

\* f"{job_id}_retry_{error_count}"
RetryId(job_id, n) == job_id \o "_retry_" \o ToString(n)

\* Python's seq[start:] for any integer start.
SliceFrom(seq, start) ==
    LET n == Len(seq)
        s == IF start < 0 THEN Max(n + start, 0) ELSE Min(start, n)
    IN  SubSeq(seq, s + 1, n)

\* self.job_history[-limit:]
get_job_history(limit) == SliceFrom(job_history, 0 - limit)

\* get_job_info(job_id) is None
get_job_info_is_None(job_id) == job_id \notin DOMAIN jobs

\* The job ids list_jobs() returns.
list_jobs == {job_id \in DOMAIN jobs : ~get_job_info_is_None(job_id)}

\* Number of executions of a store id that are submitted and not finished
\* (the executor's per-job instance counter).
Instances(id) == Cardinality({k \in 1..Len(execs) : execs[k].id = id})
\* The workers that are running a job function.
Busy == {k \in 1..Len(execs) : execs[k].state = "running"}
\* seq without its k-th element.
RemoveAt(seq, k) == SubSeq(seq, 1, k - 1) \o SubSeq(seq, k + 1, Len(seq))

Idle == [op |-> "none", id |-> "", result |-> "", arg |-> <<>>]
Called(op, id, result) ==
    [op |-> op, id |-> id, result |-> result, arg |-> <<>>]

\* --------------------------------------------------------------- triggers
Arg(args, key) == IF key \in DOMAIN args THEN args[key] ELSE 0

\* Mutant: the interval branch checks nothing.
validate_trigger_args_no_unit_check(trigger_type, args) ==
    IF trigger_type = "date" THEN "run_date" \in DOMAIN args ELSE TRUE

\* _validate_trigger_args: TRUE when it raises no SchedulingError.
validate_trigger_args(trigger_type, args) ==
    IF trigger_type = "interval"
    THEN \E key \in {"seconds", "minutes", "hours", "days"} : key \in DOMAIN args
    ELSE IF trigger_type = "date"
    THEN "run_date" \in DOMAIN args
    ELSE TRUE

\* The keyword arguments APScheduler's trigger constructors take; any other
\* keyword makes self.scheduler.add_job raise TypeError.
TriggerKeys(trigger_type) ==
    IF trigger_type = "interval"
    THEN {"weeks", "days", "hours", "minutes", "seconds", "start_date", "end_date",
          "timezone", "jitter"}
    ELSE {"run_date", "timezone"}
TriggerAccepts(trigger_type, args) == DOMAIN args \subseteq TriggerKeys(trigger_type)

\* IntervalTrigger: the interval in seconds; a zero interval becomes one second.
IntervalLength(args) ==
    LET len == Arg(args, "seconds") + 60 * Arg(args, "minutes")
               + 3600 * Arg(args, "hours") + 86400 * Arg(args, "days")
    IN  IF len = 0 THEN 1 ELSE len

\* The job self.scheduler.add_job(func, trigger, id, **trigger_args) stores.
NewStoreJob(func, trigger_type, args) ==
    IF trigger_type = "interval"
    THEN LET len == IntervalLength(args) IN
         [kind |-> "interval", interval |-> len, next_run |-> now + len,
          func |-> func, paused |-> FALSE]
    ELSE [kind |-> "date", interval |-> 0, next_run |-> args["run_date"],
          func |-> func, paused |-> FALSE]

\* Mutant: nothing is taken out of the store.
Drop_nothing(st, id) == st

\* store with job id set to j (replace_existing=True).
Put(st, id, j) == [i \in DOMAIN st \cup {id} |-> IF i = id THEN j ELSE st[i]]
\* store without job id.
Drop(st, id) == [i \in DOMAIN st \ {id} |-> st[i]]

\* ----------------------------------------------------------- rate limiter
\* while request_times and request_times[0] < cutoff_time: popleft()
RECURSIVE Clean(_, _)
Clean(request_times, cutoff_time) ==
    IF request_times # <<>> /\ request_times[1] < cutoff_time
    THEN Clean(Tail(request_times), cutoff_time)
    ELSE request_times

\* Mutant: one request more than max_requests gets through.
OverLimit_late(current_requests, config) == current_requests > config.max_requests

\* if current_requests >= config.max_requests
OverLimit(current_requests, config) == current_requests >= config.max_requests

\* The limiter and the result of lim.is_allowed(identifier, limit_type) for a
\* limit type with configuration config: <<limiter afterwards, allowed, error>>.
IsAllowed(lim, identifier, config) ==
    LET blocked_now == identifier \in DOMAIN lim.blocked /\ now < lim.blocked[identifier]
        unblocked == [i \in DOMAIN lim.blocked \ {identifier} |-> lim.blocked[i]]
        request_times == Clean(lim.requests[identifier], now - config.time_window)
        current_requests == Len(request_times)
        cleaned == [requests |-> [lim.requests EXCEPT ![identifier] = request_times],
                    blocked |-> unblocked]
        recent_requests ==
            Cardinality({n \in 1..Len(request_times) : request_times[n] > now - 60})
    IN  IF blocked_now
        THEN <<lim, FALSE, "Rate limit exceeded - temporarily blocked">>
        ELSE IF OverLimit(current_requests, config)
        THEN <<[cleaned EXCEPT !.blocked =
                    [i \in DOMAIN unblocked \cup {identifier} |->
                        IF i = identifier THEN now + config.block_duration
                        ELSE unblocked[i]]],
               FALSE, "Rate limit exceeded">>
        ELSE IF config.burst_limit # 0 /\ recent_requests >= config.burst_limit
        THEN <<cleaned, FALSE, "Burst limit exceeded">>
        ELSE <<[cleaned EXCEPT !.requests[identifier] = Append(request_times, now)],
               TRUE, "">>

\* The scheduler is left alone by the rate limiter and its callers.
SchedulerUnchanged ==
    UNCHANGED <<running, jobs, job_history, store, execs, nsub, pool, handlers>>

\* is_allowed(identifier, limit_type) on the shared limiter.
is_allowed(identifier) ==
    /\ LET r == IsAllowed(limiter, identifier, TestLimit) IN
          /\ limiter' = r[1]
          /\ last' = Called("is_allowed", identifier, IF r[2] THEN "allowed" ELSE r[3])
    /\ UNCHANGED <<ran, retry, bot>>
    /\ SchedulerUnchanged

\* reset_limit(identifier)
reset_limit(identifier) ==
    /\ limiter' = [requests |-> [limiter.requests EXCEPT ![identifier] = <<>>],
                   blocked |-> [i \in DOMAIN limiter.blocked \ {identifier} |->
                                   limiter.blocked[i]]]
    /\ last' = Called("reset_limit", identifier, "")
    /\ UNCHANGED <<ran, retry, bot>>
    /\ SchedulerUnchanged

\* A time shifted one second into the past, kept exact down to floor: every
\* time the limiter compares with lies above floor, so the times below it
\* are all alike.
Older(t, floor) == IF t - 1 < floor THEN floor ELSE t - 1
Horizon == 0 - (Max(TestLimit.time_window, 60) + 1)

\* One second passes for the rate limiter and its callers.
Wait ==
    /\ limiter' = [requests |-> [i \in Identifiers |->
                                    [n \in 1..Len(limiter.requests[i]) |->
                                        Older(limiter.requests[i][n], Horizon)]],
                   blocked |-> [i \in DOMAIN limiter.blocked |->
                                   Older(limiter.blocked[i], now)]]
    /\ ran' = [i \in Identifiers |->
                  [n \in 1..Len(ran[i]) |->
                      Older(ran[i][n], 0 - (TestLimit.time_window + 1))]]
    /\ last' = Called("wait", "", "")
    /\ UNCHANGED <<retry, bot>>
    /\ SchedulerUnchanged

\* A call, for identifier, of a function decorated with rate_limit(limit_type):
\* the wrapper constructs a RateLimiter, asks it, and raises or runs the
\* function.  The limiter it constructed is dropped when the call returns.
rate_limited_call(identifier) ==
    /\ Len(ran[identifier]) < MaxCalls
    /\ LET result == IsAllowed(NewLimiter, identifier, TestLimit) IN
          IF ~result[2]
          THEN /\ last' = Called("rate_limited_call", identifier, "Exception")
               /\ UNCHANGED ran
          ELSE /\ last' = Called("rate_limited_call", identifier, "returned")
               /\ ran' = [ran EXCEPT ![identifier] = Append(@, now)]
    /\ UNCHANGED <<limiter, retry, bot>>
    /\ SchedulerUnchanged

\* ------------------------------------------------------ retry_on_exception
\* What one call of the wrapped function can do: return its value, raise an
\* exception that matches `exceptions`, or raise one that does not.
CallOutcomes == {"returns", "raises_matching", "raises_other"}

\* Mutant: the last attempt is taken to be one later than it is.
LastAttempt_late(attempt) == attempt = MaxAttempts

\* if attempt == retry_config.max_attempts - 1
LastAttempt(attempt) == attempt = MaxAttempts - 1

\* delay = min(base_delay * exponential_base ** attempt, max_delay)
Delay(attempt) == Min(base_delay * exponential_base ^ attempt, max_delay)

\* delay *= (0.5 + random.random() * 0.5): the tenths of a second slept.
Jittered(delay) == (5 * delay)..(10 * delay)

\* The wrapper is called: the loop starts with attempt 0.
retry_call ==
    /\ retry.pc \in {"idle", "done"}
    /\ retry' = [NotCalled EXCEPT !.pc = IF 0 < MaxAttempts THEN "try" ELSE "done",
                                  !.outcome = IF 0 < MaxAttempts THEN <<>>
                                              ELSE <<"returned", "None">>]
    /\ last' = Called("retry_call", "", "")
    /\ UNCHANGED <<limiter, ran, bot>>
    /\ SchedulerUnchanged

\* One pass of the loop body: the function is called and returns or raises.
retry_attempt(does) ==
    /\ retry.pc = "try"
    /\ LET n == Len(retry.calls) + 1
           calls == Append(retry.calls, does)
       IN  retry' =
             IF does = "returns"
             THEN [retry EXCEPT !.pc = "done", !.calls = calls,
                                !.outcome = <<"returned", n>>]
             ELSE IF does = "raises_other" \/ LastAttempt(retry.attempt)
             THEN [retry EXCEPT !.pc = "done", !.calls = calls,
                                !.outcome = <<"raised", n>>]
             ELSE [retry EXCEPT !.pc = "sleep", !.calls = calls]
    /\ last' = Called("retry_attempt", "", does)
    /\ UNCHANGED <<limiter, ran, bot>>
    /\ SchedulerUnchanged

\* time.sleep(delay), then the next pass of the loop, or the end of the loop.
retry_sleep ==
    /\ retry.pc = "sleep"
    /\ \E slept \in Jittered(Delay(retry.attempt)) :
          retry' = IF retry.attempt + 1 < MaxAttempts
                   THEN [retry EXCEPT !.pc = "try", !.attempt = @ + 1,
                                      !.slept = Append(@, slept)]
                   ELSE [retry EXCEPT !.pc = "done", !.attempt = @ + 1,
                                      !.slept = Append(@, slept),
                                      !.outcome = <<"returned", "None">>]
    /\ last' = Called("retry_sleep", "", "")
    /\ UNCHANGED <<limiter, ran, bot>>
    /\ SchedulerUnchanged

\* --------------------------------------------------------- content reviews
\* ContentReview.__init__ with a callback: pending, nothing called yet.
ContentReview == [status |-> "pending", callback_calls |-> 0, modification_type |-> ""]

\* _add_to_history: append the review's status, keep the last 1000 entries.
add_to_history(history, status) ==
    LET h == Append(history, status)
    IN  IF Len(h) > ReviewHistoryCap THEN SliceFrom(h, Len(h) - ReviewHistoryCap + 1) ELSE h

\* The review is given status: its callback is invoked with it and it is
\* added to the history.
Processed(b, review_id, status) ==
    [reviews |-> [b.reviews EXCEPT ![review_id].status = status,
                                   ![review_id].callback_calls = @ + 1],
     review_history |-> add_to_history(b.review_history, status)]

\* if review.status != ApprovalStatus.PENDING
NotPending(review) == review.status # "pending"

\* The reviewers' actions leave everything but the bot alone.
OnlyBot ==
    /\ UNCHANGED <<limiter, ran, retry>>
    /\ SchedulerUnchanged

\* submit_for_review: a new pending review is stored under its id.
submit_for_review(review_id) ==
    /\ review_id \notin DOMAIN bot.reviews
    /\ bot' = [bot EXCEPT !.reviews =
                  [r \in DOMAIN bot.reviews \cup {review_id} |->
                      IF r = review_id THEN ContentReview ELSE bot.reviews[r]]]
    /\ last' = Called("submit_for_review", review_id, "")
    /\ OnlyBot

\* WebReviewInterface._handle_approval(request, review_id, status)
web_handle_approval(review_id, status) ==
    /\ Len(bot.review_history) < MaxReviewed
    /\ IF review_id \notin DOMAIN bot.reviews
       THEN /\ last' = Called("web_approval", review_id, "Review not found")
            /\ UNCHANGED bot
       ELSE IF NotPending(bot.reviews[review_id])
       THEN /\ last' = Called("web_approval", review_id, "Review already processed")
            /\ UNCHANGED bot
       ELSE /\ last' = Called("web_approval", review_id, "success")
            /\ bot' = Processed(bot, review_id, status)
    /\ OnlyBot

\* WebReviewInterface._handle_modification(request, review_id, modify_data)
web_handle_modification(review_id, caption) ==
    /\ Len(bot.review_history) < MaxReviewed
    /\ IF review_id \notin DOMAIN bot.reviews
       THEN /\ last' = Called("web_modification", review_id, "Review not found")
            /\ UNCHANGED bot
       ELSE IF NotPending(bot.reviews[review_id])
       THEN /\ last' = Called("web_modification", review_id, "Review already processed")
            /\ UNCHANGED bot
       ELSE IF caption = ""
       THEN /\ last' = Called("web_modification", review_id, "Caption is required")
            /\ UNCHANGED bot
       ELSE /\ last' = Called("web_modification", review_id, "success")
            /\ bot' = Processed(bot, review_id, "modified")
    /\ OnlyBot

\* TelegramReviewBot._handle_approval_callback for the button action_review_id:
\* _approve_content, _reject_content or _start_modification.
telegram_approval_callback(action, review_id) ==
    /\ Len(bot.review_history) < MaxReviewed
    /\ IF review_id \notin DOMAIN bot.reviews
       THEN /\ last' = Called("telegram_" \o action, review_id,
                              "Review not found or already processed.")
            /\ UNCHANGED bot
       ELSE IF action = "approve"
       THEN /\ last' = Called("telegram_approve", review_id, "Content Approved")
            /\ bot' = Processed(bot, review_id, "approved")
       ELSE IF action = "reject"
       THEN /\ last' = Called("telegram_reject", review_id, "Content Rejected")
            /\ bot' = Processed(bot, review_id, "rejected")
       ELSE /\ last' = Called("telegram_modify", review_id, "Modify Content")
            /\ UNCHANGED bot
    /\ OnlyBot

\* TelegramReviewBot._handle_modification_callback for the Edit Caption
\* button: _modify_caption stores the modification context.
telegram_modification_callback(review_id) ==
    /\ Len(bot.review_history) < MaxReviewed
    /\ IF review_id \notin DOMAIN bot.reviews
       THEN /\ last' = Called("telegram_mod_caption", review_id, "Review not found.")
            /\ UNCHANGED bot
       ELSE /\ last' = Called("telegram_mod_caption", review_id, "Edit Caption")
            /\ bot' = [bot EXCEPT !.reviews[review_id].modification_type = "caption"]
    /\ OnlyBot

\* TelegramReviewBot._handle_text_modification: the reviewer's text goes to
\* the first review that waits for a caption.
telegram_text_modification ==
    /\ Len(bot.review_history) < MaxReviewed
    /\ LET waiting == {r \in DOMAIN bot.reviews : bot.reviews[r].modification_type = "caption"}
       IN  IF waiting = {}
           THEN /\ last' = Called("telegram_text", "", "")
                /\ UNCHANGED bot
           ELSE LET review_id == CHOOSE r \in waiting : TRUE
                    b == Processed(bot, review_id, "modified")
                IN  /\ last' = Called("telegram_text", review_id, "Caption Updated")
                    /\ bot' = [b EXCEPT !.reviews[review_id].modification_type = ""]
    /\ OnlyBot

\* ------------------------------------------------------- failure handling
\* Mutant: the delay grows linearly.
retry_delay_linear(error_count) == Min(BackoffBase * 2 * error_count, BackoffCap)

\* retry_delay = min(60 * (2 ** error_count), 3600)
retry_delay(error_count) == Min(BackoffBase * (2 ^ error_count), BackoffCap)

\* Mutant: one retry too many.
handle_job_failure_one_more(st, job_id, error_count) ==
    IF error_count <= max_retries + 1
    THEN Put(st, RetryId(job_id, error_count),
             [kind |-> "date", interval |-> 0,
              next_run |-> now + retry_delay(error_count), func |-> job_id,
              paused |-> FALSE])
    ELSE st

\* _handle_job_failure: the job store after it ran for job_id, whose
\* error_count was already incremented.
handle_job_failure(st, job_id, error_count) ==
    IF error_count <= max_retries
    THEN Put(st, RetryId(job_id, error_count),
             [kind |-> "date", interval |-> 0,
              next_run |-> now + retry_delay(error_count), func |-> job_id,
              paused |-> FALSE])
    ELSE st

\* The record _job_executed_listener appends to the history.
HistoryEntry(job_id, status, exception) ==
    [job_id |-> job_id, status |-> status, exception |-> exception]

\* Mutant: the first 1000 entries are kept.
TrimHistory_keep_oldest(h) == IF Len(h) > HistoryCap THEN SubSeq(h, 1, HistoryCap) ELSE h

\* Keep only the last 1000 history entries.
TrimHistory(h) == IF Len(h) > HistoryCap THEN SliceFrom(h, 0 - HistoryCap) ELSE h

\* Mutant: a failure is counted as a run as well.
MarkFailed_counts_run(sj, exception) ==
    [sj EXCEPT !.status = "failed", !.error_count = @ + 1,
               !.last_error = exception, !.run_count = @ + 1]

\* The listener's branch for event.exception: the registry entry of a job
\* after a run of it raised exception.
MarkFailed(sj, exception) ==
    [sj EXCEPT !.status = "failed", !.error_count = @ + 1, !.last_error = exception]

\* Mutant: a success clears the failure record.
MarkCompleted_clears_errors(sj) ==
    [sj EXCEPT !.status = "completed", !.run_count = @ + 1,
               !.error_count = 0, !.last_error = NoException]

\* The listener's branch for no exception: the registry entry of a job
\* after a run of it returned.
MarkCompleted(sj) == [sj EXCEPT !.status = "completed", !.run_count = @ + 1]

\* _job_executed_listener(event) with event.job_id = job_id and
\* event.exception = exception (NoException for EVENT_JOB_EXECUTED and
\* EVENT_JOB_MISSED, which carry no exception).
job_executed_listener(job_id, exception, kind) ==
    IF job_id \in DOMAIN jobs
    THEN LET sj == jobs[job_id]
             sj2 == IF exception # NoException
                    THEN MarkFailed(sj, exception)
                    ELSE MarkCompleted(sj)
         IN  /\ jobs' = [jobs EXCEPT ![job_id] = sj2]
             /\ store' = IF exception # NoException
                         THEN handle_job_failure(store, job_id, sj2.error_count)
                         ELSE store
             /\ job_history' =
                    TrimHistory(Append(job_history,
                                       HistoryEntry(job_id, sj2.status, exception)))
             /\ last' = Called("event", job_id, kind)
    ELSE /\ UNCHANGED <<jobs, store, job_history>>
         /\ last' = Called("ignored_event", job_id, kind)

\* ----------------------------------------------------------------- facade
Init ==
    /\ running = FALSE
    /\ jobs = [j \in {} |-> ScheduledJob("interval", NoArgs)]
    /\ job_history = <<>>
    /\ store = [i \in {} |-> 0]
    /\ execs = <<>>
    /\ nsub = 0
    /\ pool = "open"
    /\ last = Idle
    /\ AsideInit

\* start()
Start ==
    /\ ~running
    /\ running' = TRUE
    /\ last' = Called("start", "", "ok")
    /\ UNCHANGED <<jobs, job_history, store, execs, nsub, pool>>
    /\ UNCHANGED aside

\* get_scheduler_status()['running']
get_scheduler_status_running == running

\* Mutant: shutdown does not wait for the workers (wait=False).
Drained_no_wait == TRUE

\* self.scheduler.shutdown(wait=True) returns once the pool has run every
\* execution submitted to it and its workers have returned.
Drained == execs = <<>>

\* stop(wait=True) is called. A running scheduler is marked stopped at once
\* (self.scheduler.running is False from then on), its pool takes no new
\* submission and the caller blocks until the pool is drained. On a scheduler
\* that is not running stop only logs a warning.
stop ==
    /\ pool # "draining"
    /\ IF running
       THEN /\ running' = FALSE
            /\ pool' = "draining"
            /\ last' = Called("stop", "", "waiting")
       ELSE /\ UNCHANGED <<running, pool>>
            /\ last' = Called("stop", "", "not_running")
    /\ UNCHANGED <<jobs, job_history, store, execs, nsub>>
    /\ UNCHANGED aside

\* stop(wait=True) returns.
stop_returns ==
    /\ pool = "draining"
    /\ Drained
    /\ pool' = "shutdown"
    /\ last' = Called("stop", "", "returned")
    /\ UNCHANGED <<running, jobs, job_history, store, execs, nsub>>
    /\ UNCHANGED aside

\* add_job(function, job_type, trigger_type, job_id, **args); the function
\* registered under a job id is named by that id.
add_job(job_id, trigger_type, args) ==
    /\ IF validate_trigger_args(trigger_type, args) /\ TriggerAccepts(trigger_type, args)
       THEN /\ store' = Put(store, job_id, NewStoreJob(job_id, trigger_type, args))
            /\ jobs' = Put(jobs, job_id, ScheduledJob(trigger_type, args))
            /\ last' = [op |-> "add_job", id |-> job_id, result |-> "ok",
                        arg |-> [trigger_type |-> trigger_type, args |-> args]]
       ELSE /\ UNCHANGED <<store, jobs>>
            /\ last' = [op |-> "add_job", id |-> job_id, result |-> "SchedulingError",
                        arg |-> [trigger_type |-> trigger_type, args |-> args]]
    /\ UNCHANGED <<running, job_history, execs, nsub, pool>>
    /\ UNCHANGED aside

\* Mutant: no JobLookupError is raised.
JobFound_always(job_id) == TRUE

\* self.scheduler.remove_job(job_id) finds the job: it raises JobLookupError
\* for an id the job store does not hold.
JobFound(job_id) == job_id \in DOMAIN store

\* remove_job(job_id)
remove_job(job_id) ==
    /\ IF JobFound(job_id)
       THEN /\ store' = Drop(store, job_id)
            /\ jobs' = Drop(jobs, job_id)
            /\ last' = Called("remove_job", job_id, "True")
       ELSE /\ UNCHANGED <<store, jobs>>
            /\ last' = Called("remove_job", job_id, "False")
    /\ UNCHANGED <<running, job_history, execs, nsub, pool>>
    /\ UNCHANGED aside

\* self.scheduler.resume_job computes the next run time of the job afresh:
\* an interval trigger's first time not before now, a date trigger's run_date.
ResumedRun(j) ==
    IF j.kind = "interval" /\ j.next_run < now
    THEN j.next_run + ((now - j.next_run + j.interval - 1) \div j.interval) * j.interval
    ELSE j.next_run

\* pause_job(job_id): self.scheduler.pause_job takes the next run time from
\* the store's job of that id only; it raises JobLookupError for an id the
\* store does not hold.
pause_job(job_id) ==
    /\ IF JobFound(job_id)
       THEN /\ store' = [store EXCEPT ![job_id].paused = TRUE]
            /\ jobs' = IF job_id \in DOMAIN jobs
                       THEN [jobs EXCEPT ![job_id].status = "pending"]
                       ELSE jobs
            /\ last' = Called("pause_job", job_id, "ok")
       ELSE /\ UNCHANGED <<store, jobs>>
            /\ last' = Called("pause_job", job_id, "SchedulingError")
    /\ UNCHANGED <<running, job_history, execs, nsub, pool>>
    /\ UNCHANGED aside

\* resume_job(job_id)
resume_job(job_id) ==
    /\ IF JobFound(job_id)
       THEN /\ store' = [store EXCEPT ![job_id].paused = FALSE,
                                      ![job_id].next_run = ResumedRun(store[job_id])]
            /\ jobs' = IF job_id \in DOMAIN jobs
                       THEN [jobs EXCEPT ![job_id].status = "pending"]
                       ELSE jobs
            /\ last' = Called("resume_job", job_id, "ok")
       ELSE /\ UNCHANGED <<store, jobs>>
            /\ last' = Called("resume_job", job_id, "SchedulingError")
    /\ UNCHANGED <<running, job_history, execs, nsub, pool>>
    /\ UNCHANGED aside

\* ------------------------------------------------ scheduler thread, workers
Due(id) == id \in DOMAIN store /\ ~store[id].paused /\ store[id].next_run <= now

\* With coalesce=True only the latest due run time of the job is submitted.
RunTime(j) ==
    IF j.kind = "interval"
    THEN j.next_run + ((now - j.next_run) \div j.interval) * j.interval
    ELSE j.next_run

\* Mutant: one instance too many is let through.
MaxInstancesReached_late(id) == Instances(id) > max_instances

\* The executor refuses a submission (MaxInstancesReachedError) while
\* max_instances executions of the job id are outstanding.
MaxInstancesReached(id) == Instances(id) >= max_instances

\* The scheduler thread processes due job id: it submits one execution unless
\* max_instances executions of the id are outstanding or the pool was shut
\* down (the pool then raises RuntimeError, which the scheduler logs), then
\* moves the job to its next run time, or drops it from the store when the
\* trigger has none.
Submit(id) ==
    /\ running
    /\ Due(id)
    /\ nsub < MaxSubmits
    /\ nsub' = nsub + 1
    /\ LET j == store[id]
           run_time == RunTime(j)
       IN  /\ IF MaxInstancesReached(id)
              THEN /\ execs' = execs
                   /\ last' = Called("skipped", id, "max_instances")
              ELSE IF pool # "open"
              THEN /\ execs' = execs
                   /\ last' = Called("skipped", id, "RuntimeError")
              ELSE /\ execs' = Append(execs, [id |-> id, func |-> j.func,
                                              run_time |-> run_time, state |-> "queued"])
                   /\ last' = Called("submitted", id, "")
           /\ store' = IF j.kind = "interval"
                       THEN [store EXCEPT ![id].next_run = run_time + j.interval]
                       ELSE Drop(store, id)
    /\ UNCHANGED <<running, jobs, job_history, pool>>
    /\ UNCHANGED aside

\* A free worker takes the oldest queued execution. A run time more than
\* misfire_grace_time in the past is reported as EVENT_JOB_MISSED instead of
\* being run. The run time is not read again once the function is started,
\* so the record of a running execution does not keep it.
StartExec(k) ==
    /\ k \in 1..Len(execs)
    /\ execs[k].state = "queued"
    /\ \A i \in 1..(k - 1) : execs[i].state = "running"
    /\ Cardinality(Busy) < max_workers
    /\ IF now - execs[k].run_time > misfire_grace_time
       THEN /\ execs' = RemoveAt(execs, k)
            /\ job_executed_listener(execs[k].id, NoException, "missed")
       ELSE /\ execs' = [execs EXCEPT ![k].state = "running", ![k].run_time = now]
            /\ last' = Called("started", execs[k].id, "")
            /\ UNCHANGED <<jobs, job_history, store>>
    /\ UNCHANGED <<running, nsub, pool>>
    /\ UNCHANGED aside

\* The function of a running execution returns (exception = NoException) or
\* raises; the executor releases the instance and dispatches the event.
Finish(k, exception) ==
    /\ k \in Busy
    /\ execs' = RemoveAt(execs, k)
    /\ job_executed_listener(execs[k].id, exception,
                             IF exception = NoException THEN "executed" ELSE "error")
    /\ UNCHANGED <<running, nsub, pool>>
    /\ UNCHANGED aside

\* The function of a running execution returns or raises on its worker
\* thread: the executor releases the instance and the worker calls
\* _job_executed_listener with the event. No lock is taken, so the calls of
\* several workers interleave; a call is followed through the positions
\* "enter" and "write".
Return(k, exception) ==
    /\ k \in Busy
    /\ execs' = RemoveAt(execs, k)
    /\ handlers' = Append(handlers,
                          [id |-> execs[k].id, exception |-> exception,
                           pc |-> "enter", seen |-> 0])
    /\ last' = Called("returned", execs[k].id, "")
    /\ UNCHANGED <<running, jobs, job_history, store, nsub, pool, limiter, ran, retry, bot>>

\* The counter the listener increments for an event, as the entry holds it.
Counter(sj, exception) ==
    IF exception # NoException THEN sj.error_count ELSE sj.run_count

\* Listener call h looks its job id up in self.jobs; for a registered id it
\* takes the entry, assigns its status and reads the counter it is about to
\* increment.
ListenerEnter(h) ==
    /\ h \in 1..Len(handlers)
    /\ handlers[h].pc = "enter"
    /\ LET e == handlers[h] IN
       IF e.id \in DOMAIN jobs
       THEN /\ jobs' = [jobs EXCEPT ![e.id].status =
                            IF e.exception # NoException THEN "failed" ELSE "completed"]
            /\ handlers' = [handlers EXCEPT ![h].pc = "write",
                                ![h].seen = Counter(jobs[e.id], e.exception)]
            /\ last' = Called("listener", e.id, "enter")
       ELSE /\ jobs' = jobs
            /\ handlers' = RemoveAt(handlers, h)
            /\ last' = Called("ignored_event", e.id,
                              IF e.exception # NoException THEN "error" ELSE "executed")
    /\ UNCHANGED <<running, job_history, store, execs, nsub, pool, limiter, ran, retry, bot>>

\* Listener call h stores the incremented counter (the value it read, plus
\* one), sets last_error and schedules the retry on a failure, and appends
\* the history record. An entry that remove_job deleted meanwhile is no
\* longer in the registry: the call then updates an object nobody reads.
ListenerWrite(h) ==
    /\ h \in 1..Len(handlers)
    /\ handlers[h].pc = "write"
    /\ LET e == handlers[h]
           failed == e.exception # NoException
       IN  /\ jobs' = IF e.id \in DOMAIN jobs
                      THEN IF failed
                           THEN [jobs EXCEPT ![e.id].error_count = e.seen + 1,
                                             ![e.id].last_error = e.exception]
                           ELSE [jobs EXCEPT ![e.id].run_count = e.seen + 1]
                      ELSE jobs
           /\ store' = IF failed THEN handle_job_failure(store, e.id, e.seen + 1)
                       ELSE store
           /\ job_history' =
                  TrimHistory(Append(job_history,
                                     HistoryEntry(e.id,
                                                  IF e.id \in DOMAIN jobs
                                                  THEN jobs[e.id].status
                                                  ELSE IF failed THEN "failed"
                                                  ELSE "completed",
                                                  e.exception)))
           /\ handlers' = RemoveAt(handlers, h)
           /\ last' = Called("event", e.id, IF failed THEN "error" ELSE "executed")
    /\ UNCHANGED <<running, execs, nsub, pool, limiter, ran, retry, bot>>

\* The scheduler thread has a due job to process.
SchedulerHasWork == running /\ \E id \in DOMAIN store : Due(id)
\* A worker is free and an execution is queued for it.
PoolHasWork ==
    /\ \E k \in 1..Len(execs) : execs[k].state = "queued"
    /\ Cardinality(Busy) < max_workers

\* Time passes up to the next instant at which something changes: a job
\* becomes due, or a due run time leaves its grace window. The scheduler
\* thread wakes at every due time and the pool hands a queued execution to a
\* free worker at once, so time passes only when neither has work to do; a
\* job is found late only when the scheduler was not running or no worker
\* was free.
Instants ==
    {store[i].next_run : i \in {x \in DOMAIN store : ~store[x].paused}}
    \cup {store[i].next_run + misfire_grace_time + 1 :
              i \in {x \in DOMAIN store : ~store[x].paused}}
    \cup {execs[k].run_time + misfire_grace_time + 1 :
              k \in {x \in 1..Len(execs) : execs[x].state = "queued"}}
Tick ==
    /\ ~SchedulerHasWork
    /\ ~PoolHasWork
    /\ \E t \in Instants :
          /\ t > now
          /\ \A u \in Instants : u > now => t <= u
          /\ store' = [i \in DOMAIN store |->
                           [store[i] EXCEPT !.next_run = @ - (t - now)]]
          /\ execs' = [k \in 1..Len(execs) |->
                           IF execs[k].state = "queued"
                           THEN [execs[k] EXCEPT !.run_time = @ - (t - now)]
                           ELSE execs[k]]
    /\ last' = Called("tick", "", "")
    /\ UNCHANGED <<running, jobs, job_history, nsub, pool>>
    /\ UNCHANGED aside

Next ==
    \/ Start
    \/ \E job_id \in JobIds, t \in TriggerTypes :
          \E args \in TriggerArgs(now) : add_job(job_id, t, args)
    \/ \E job_id \in JobIds \cup DOMAIN store : remove_job(job_id)
    \/ \E id \in DOMAIN store : Submit(id)
    \/ \E k \in 1..Len(execs) : StartExec(k)
    \/ \E k \in 1..Len(execs), x \in {NoException, ErrorMessage} : Finish(k, x)
    \/ Tick

Spec == Init /\ [][Next]_vars

\* Registration and dispatch, with jobs registered with interval arguments
\* whose time units are zero.
NextArgs ==
    \/ Start
    \/ \E job_id \in JobIds, t \in TriggerTypes :
          \E args \in ZeroArgs : add_job(job_id, t, args)
    \/ \E job_id \in JobIds \cup DOMAIN store : remove_job(job_id)
    \/ \E id \in DOMAIN store : Submit(id)
    \/ \E k \in 1..Len(execs) : StartExec(k)
    \/ Tick

SpecArgs == Init /\ [][NextArgs]_vars

\* The scheduler after many executions: the history holds HistoryCap - 2 to
\* HistoryCap entries (one failure, then successes) and the job was then
\* registered again with add_job, which starts its counters afresh.
Prefilled(n) ==
    [i \in 1..n |-> IF i = 1 THEN [job_id |-> "gen", status |-> "failed",
                                   exception |-> ErrorMessage]
                    ELSE [job_id |-> "gen", status |-> "completed",
                          exception |-> NoException]]
InitHist ==
    /\ running = FALSE
    /\ jobs = [j \in {"gen"} |-> ScheduledJob("interval", [seconds |-> IntervalSecs])]
    /\ \E n \in (HistoryCap - 2)..HistoryCap : job_history = Prefilled(n)
    /\ store = [i \in {"gen"} |->
                  NewStoreJob("gen", "interval", [seconds |-> IntervalSecs])]
    /\ execs = <<>>
    /\ nsub = 0
    /\ pool = "open"
    /\ last = [op |-> "add_job", id |-> "gen", result |-> "ok",
               arg |-> [trigger_type |-> "interval", args |-> [seconds |-> IntervalSecs]]]
    /\ AsideInit

NextHist ==
    \/ Start
    \/ \E id \in DOMAIN store : Submit(id)
    \/ \E k \in 1..Len(execs) : StartExec(k)
    \/ \E k \in 1..Len(execs), x \in {NoException, ErrorMessage} : Finish(k, x)
    \/ Tick

SpecHist == InitHist /\ [][NextHist]_vars

\* The scheduler with one interval job registered.
InitJob ==
    /\ running = FALSE
    /\ jobs = [j \in {"gen"} |-> ScheduledJob("interval", [seconds |-> IntervalSecs])]
    /\ job_history = <<>>
    /\ store = [i \in {"gen"} |->
                  NewStoreJob("gen", "interval", [seconds |-> IntervalSecs])]
    /\ execs = <<>>
    /\ nsub = 0
    /\ pool = "open"
    /\ last = [op |-> "add_job", id |-> "gen", result |-> "ok",
               arg |-> [trigger_type |-> "interval", args |-> [seconds |-> IntervalSecs]]]
    /\ AsideInit

\* The scheduler with one job registered that fires every second.
InitFast ==
    /\ running = FALSE
    /\ jobs = [j \in {"gen"} |-> ScheduledJob("interval", [seconds |-> FastSecs])]
    /\ job_history = <<>>
    /\ store = [i \in {"gen"} |->
                  NewStoreJob("gen", "interval", [seconds |-> FastSecs])]
    /\ execs = <<>>
    /\ nsub = 0
    /\ pool = "open"
    /\ last = [op |-> "add_job", id |-> "gen", result |-> "ok",
               arg |-> [trigger_type |-> "interval", args |-> [seconds |-> FastSecs]]]
    /\ AsideInit

\* The job that fires every second has a function that always raises.
NextFast ==
    \/ Start
    \/ \E id \in DOMAIN store : Submit(id)
    \/ \E k \in 1..Len(execs) : StartExec(k)
    \/ \E k \in 1..Len(execs) : Finish(k, ErrorMessage)
    \/ Tick

SpecFast == InitFast /\ [][NextFast]_vars

\* The job that fires every second runs on the pool's workers, whose listener
\* calls interleave with each other and with the caller's remove_job.
NextConc ==
    \/ Start
    \/ \E job_id \in JobIds : remove_job(job_id)
    \/ \E id \in DOMAIN store : Submit(id)
    \/ \E k \in 1..Len(execs) : StartExec(k)
    \/ \E k \in 1..Len(execs), x \in {NoException, ErrorMessage} : Return(k, x)
    \/ \E h \in 1..Len(handlers) : ListenerEnter(h)
    \/ \E h \in 1..Len(handlers) : ListenerWrite(h)
    \/ Tick

SpecConc == InitFast /\ [][NextConc]_vars

\* Callers of one RateLimiter, over time.
NextLimiter ==
    \/ \E identifier \in Identifiers : is_allowed(identifier)
    \/ \E identifier \in Identifiers : reset_limit(identifier)
    \/ Wait

SpecLimiter == Init /\ [][NextLimiter]_vars

\* Callers of a function decorated with rate_limit, over time.
NextDecorator ==
    \/ \E identifier \in Identifiers : rate_limited_call(identifier)
    \/ Wait

SpecDecorator == Init /\ [][NextDecorator]_vars

\* Calls of a function wrapped by retry_on_exception.
NextRetry ==
    \/ retry_call
    \/ \E does \in CallOutcomes : retry_attempt(does)
    \/ retry_sleep

SpecRetry == Init /\ [][NextRetry]_vars

\* Content is submitted and the reviewers act on it, on the web and in
\* Telegram.
NextReview ==
    \/ \E review_id \in ReviewIds : submit_for_review(review_id)
    \/ \E review_id \in ReviewIds, status \in {"approved", "rejected"} :
          web_handle_approval(review_id, status)
    \/ \E review_id \in ReviewIds, caption \in {"", "new caption"} :
          web_handle_modification(review_id, caption)
    \/ \E review_id \in ReviewIds, action \in {"approve", "reject", "modify"} :
          telegram_approval_callback(action, review_id)
    \/ \E review_id \in ReviewIds : telegram_modification_callback(review_id)
    \/ telegram_text_modification

SpecReview == Init /\ [][NextReview]_vars

\* Callers pause and resume the registered job while the scheduler runs it.
NextPause ==
    \/ Start
    \/ \E job_id \in JobIds : pause_job(job_id)
    \/ \E job_id \in JobIds : resume_job(job_id)
    \/ \E id \in DOMAIN store : Submit(id)
    \/ \E k \in 1..Len(execs) : StartExec(k)
    \/ \E k \in 1..Len(execs), x \in {NoException, ErrorMessage} : Finish(k, x)
    \/ Tick

SpecPause == (InitJob \/ InitFast) /\ [][NextPause]_vars

\* The scheduler with one date job registered (run_date = now + DateDelay)
\* whose function returns normally; callers start and stop the scheduler and
\* pause, resume and remove the job.
InitDate ==
    /\ running = FALSE
    /\ jobs = [j \in {"gen"} |-> ScheduledJob("date", [run_date |-> now + DateDelay])]
    /\ job_history = <<>>
    /\ store = [i \in {"gen"} |->
                  NewStoreJob("gen", "date", [run_date |-> now + DateDelay])]
    /\ execs = <<>>
    /\ nsub = 0
    /\ pool = "open"
    /\ last = [op |-> "add_job", id |-> "gen", result |-> "ok",
               arg |-> [trigger_type |-> "date", args |-> [run_date |-> now + DateDelay]]]
    /\ AsideInit

NextDate ==
    \/ pool # "draining" /\ Start
    \/ stop
    \/ stop_returns
    \/ \E job_id \in JobIds : pause_job(job_id)
    \/ \E job_id \in JobIds : resume_job(job_id)
    \/ \E job_id \in JobIds : remove_job(job_id)
    \/ \E id \in DOMAIN store : Submit(id)
    \/ \E k \in 1..Len(execs) : StartExec(k)
    \/ \E k \in 1..Len(execs) : Finish(k, NoException)
    \/ Tick

SpecDate == InitDate /\ [][NextDate]_vars

\* The process ends while the scheduler runs and a new process constructs a
\* ContentScheduler over the same job store file (data/jobs.sqlite):
\* __init__ starts from an empty registry and an empty history and creates a
\* scheduler that is not started, with a new pool. The job store keeps its
\* jobs with their next run times; the executions in flight are lost with
\* the old process. (A scheduler that was started has written every job
\* added to it to the store.)
Restart ==
    /\ running
    /\ running' = FALSE
    /\ jobs' = [j \in {} |-> ScheduledJob("interval", NoArgs)]
    /\ job_history' = <<>>
    /\ execs' = <<>>
    /\ pool' = "open"
    /\ last' = Called("restart", "", "")
    /\ UNCHANGED <<store, nsub>>
    /\ UNCHANGED aside

\* Removal and execution of a registered job across restarts of the process.
NextRestart ==
    \/ Start
    \/ \E job_id \in JobIds : remove_job(job_id)
    \/ Restart
    \/ \E id \in DOMAIN store : Submit(id)
    \/ \E k \in 1..Len(execs) : StartExec(k)
    \/ \E k \in 1..Len(execs), x \in {NoException, ErrorMessage} : Finish(k, x)
    \/ Tick

SpecRestart == InitJob /\ [][NextRestart]_vars

\* The scheduler with one interval job registered, started and stopped by one
\* controlling thread (which calls nothing while it is blocked in stop).
NextStop ==
    \/ pool # "draining" /\ Start
    \/ stop
    \/ stop_returns
    \/ \E id \in DOMAIN store : Submit(id)
    \/ \E k \in 1..Len(execs) : StartExec(k)
    \/ \E k \in 1..Len(execs), x \in {NoException, ErrorMessage} : Finish(k, x)
    \/ Tick

SpecStop == InitJob /\ [][NextStop]_vars

\* ------------------------------------------------------------------ claims
TimeUnits == {"seconds", "minutes", "hours", "days"}
DerivedIds == {RetryId(j, n) : j \in JobIds, n \in 1..3}
\* The last step handled a failed execution of a registered job.
FailureHandled ==
    /\ last.op = "event"
    /\ last.result = "error"
    /\ last.id \in DOMAIN jobs

\* C1: at most one execution of a job id is in flight (submitted and not
\* finished) at any time; a firing that comes while one is in flight is dropped.
C1_OneExecutionPerJobId ==
    \A k1, k2 \in 1..Len(execs) : execs[k1].id = execs[k2].id => k1 = k2
C1_Witness ==
    /\ last.op = "skipped"
    /\ \E k \in 1..Len(execs) : execs[k].id = last.id /\ execs[k].state = "running"

C2_Delay(n) == IF 60 * (2 ^ n) <= 3600 THEN 60 * (2 ^ n) ELSE 3600
\* C2: after a failed execution of registered job J with error_count = n <= 3
\* the store holds a one-off entry {J}_retry_{n} due min(60 * 2^n, 3600) seconds
\* from now: 120, 240, 480 seconds for n = 1, 2, 3, never more than 3600.
C2_RetryScheduled ==
    (FailureHandled /\ jobs[last.id].error_count <= 3) =>
        LET n == jobs[last.id].error_count
            rid == last.id \o "_retry_" \o ToString(n)
        IN  /\ rid \in DOMAIN store
            /\ store[rid].kind = "date"
            /\ store[rid].func = last.id
            /\ ~store[rid].paused
            /\ store[rid].next_run = now + C2_Delay(n)
            /\ store[rid].next_run <= 3600
            /\ n = 1 => store[rid].next_run = 120
            /\ n = 2 => store[rid].next_run = 240
            /\ n = 3 => store[rid].next_run = 480
C2_Witness ==
    /\ FailureHandled
    /\ jobs[last.id].error_count = 3
    /\ store[RetryId(last.id, 3)].next_run = 480
    /\ RetryId(last.id, 1) \in DOMAIN store

\* C3: a failure that takes error_count above 3 schedules nothing, and the only
\* derived ids that ever enter the store are {J}_retry_1, {J}_retry_2, {J}_retry_3.
C3_RetryBound ==
    [][/\ (DOMAIN store' \ DOMAIN store) \subseteq (JobIds \cup DerivedIds)
       /\ \A j \in DOMAIN jobs \cap DOMAIN jobs' :
             (jobs'[j].error_count = jobs[j].error_count + 1 /\ jobs'[j].error_count > 3)
                 => store' = store]_vars
C3_Witness ==
    /\ FailureHandled
    /\ jobs[last.id].error_count = 4
    /\ RetryId(last.id, 4) \notin DOMAIN store

\* C4: an exception raised by an execution of a derived entry {J}_retry_{n} of
\* registered job J is a failure of J: it increments J's error_count and sets
\* J's status to failed.
C4_RetryFailureCounts ==
    [][\A j \in DOMAIN jobs, n \in 1..3 :
          (/\ last'.id = RetryId(j, n)
           /\ last'.result = "error"
           /\ Len(execs') < Len(execs))
              => /\ j \in DOMAIN jobs'
                 /\ jobs'[j].error_count = jobs[j].error_count + 1
                 /\ jobs'[j].status = "failed"]_vars

\* C5: remove_job(J) of a job J the registry holds takes J out of the registry:
\* get_job_info(J) is None and list_jobs does not list J afterwards.
C5_RemoveJobRemoves ==
    [][\A j \in DOMAIN jobs :
          (last'.op = "remove_job" /\ last'.id = j)
              => (get_job_info_is_None(j)' /\ j \notin list_jobs')]_vars

\* C6: remove_job of an id that neither the registry nor the job store holds
\* returns False and leaves the registry, the job store and the history as
\* they were.
C6_IdempotentRemoval ==
    [][(/\ last'.op = "remove_job"
        /\ last'.id \notin DOMAIN jobs
        /\ last'.id \notin DOMAIN store)
           => /\ last'.result = "False"
              /\ jobs' = jobs
              /\ store' = store
              /\ job_history' = job_history]_vars
C6_Witness ==
    /\ last.op = "remove_job"
    /\ last.result = "False"
    /\ last.id \notin DOMAIN jobs
    /\ last.id \notin DOMAIN store
    /\ job_history # <<>>

C7_NoUnitOrDate(arg) ==
    \/ arg.trigger_type = "interval" /\ TimeUnits \cap DOMAIN arg.args = {}
    \/ arg.trigger_type = "date" /\ "run_date" \notin DOMAIN arg.args
\* C7: add_job with an interval trigger and no time unit, or with a date
\* trigger and no run_date, raises SchedulingError and registers nothing.
C7_TriggerValidation ==
    [][(last'.op = "add_job" /\ C7_NoUnitOrDate(last'.arg))
           => /\ last'.result = "SchedulingError"
              /\ jobs' = jobs
              /\ store' = store]_vars
C7_Witness ==
    /\ last.op = "add_job"
    /\ last.result = "SchedulingError"
    /\ last.arg.trigger_type = "interval"
    /\ last.arg.args = NoArgs
    /\ DOMAIN jobs # {}
    /\ DOMAIN store # {}

\* C8: add_job with an interval trigger succeeds only if one of seconds,
\* minutes, hours, days is given with a value > 0.
C8_PositiveUnitRequired ==
    (last.op = "add_job" /\ last.arg.trigger_type = "interval" /\ last.result = "ok")
        => \E key \in TimeUnits \cap DOMAIN last.arg.args : last.arg.args[key] > 0

\* C9: the history never holds more than 1000 entries, so that
\* get_job_history(10000) returns at most 1000; every handled event appends
\* its record at the end of the history, an append to a full history drops
\* the oldest entry, and nothing else changes the history.
C9_HistoryBound ==
    [][/\ Len(job_history') <= 1000
       /\ Len(get_job_history(10000)') <= 1000
       /\ IF last'.op = "event" /\ execs' # execs
          THEN \E e \in {job_history'[Len(job_history')]} :
                  /\ e.job_id = last'.id
                  /\ e.status = jobs'[last'.id].status
                  /\ job_history' = IF Len(job_history) < 1000
                                    THEN Append(job_history, e)
                                    ELSE Append(Tail(job_history), e)
          ELSE job_history' = job_history]_vars
C9_Witness ==
    /\ Len(job_history) = 1000
    /\ job_history[1].status = "completed"
    /\ job_history[1000].status = "failed"

\* C10: get_job_history(limit) returns exactly the min(limit, length) most
\* recent entries, for every limit >= 0.
C10_HistoryLimit ==
    \A limit \in 0..MaxLimit :
        LET n == Len(job_history)
            m == IF limit <= n THEN limit ELSE n
        IN  get_job_history(limit) = SubSeq(job_history, n - m + 1, n)

\* C11: a paused job never fires: while job J is paused (between pause_job(J)
\* and the next resume_job(J)) the scheduler submits no execution of J's
\* function, neither from J's own trigger nor from a derived retry entry of
\* J, and J stays in the registry.
C11_PausedNeverFires ==
    [][\A j \in DOMAIN jobs :
          (j \in DOMAIN store /\ store[j].paused)
              => /\ j \in DOMAIN jobs'
                 /\ ~(/\ Len(execs') > Len(execs)
                      /\ execs'[Len(execs')].func = j)]_vars

\* C12: pause_job(J) and resume_job(J) leave J's status, run_count,
\* error_count and last_error as they were before the call.
C12_PauseRetainsStatus ==
    [][\A j \in DOMAIN jobs :
          (last'.op \in {"pause_job", "resume_job"} /\ last'.id = j)
              => /\ j \in DOMAIN jobs'
                 /\ jobs'[j].status = jobs[j].status
                 /\ jobs'[j].run_count = jobs[j].run_count
                 /\ jobs'[j].error_count = jobs[j].error_count
                 /\ jobs'[j].last_error = jobs[j].last_error]_vars

C14_MissedRecorded ==
    [][\A j \in DOMAIN jobs :
          (last'.op = "event" /\ last'.result = "missed" /\ last'.id = j)
              => /\ jobs'[j].status = "missed"
                 /\ job_history' # <<>>
                 /\ job_history'[Len(job_history')].job_id = j
                 /\ job_history'[Len(job_history')].status = "missed"
                 /\ jobs'[j].run_count = jobs[j].run_count
                 /\ jobs'[j].error_count = jobs[j].error_count
                 /\ DOMAIN store' = DOMAIN store]_vars

\* C15: a job is never silently removed: a job id leaves the registry only by
\* remove_job of that id, and a job whose retries are exhausted (failed, with
\* error_count above max_retries) keeps status failed until an execution of
\* it succeeds (or the id is registered anew with add_job).
C15_NeverSilentlyRemoved ==
    [][\A j \in DOMAIN jobs :
          /\ j \notin DOMAIN jobs' => (last'.op = "remove_job" /\ last'.id = j)
          /\ (/\ j \in DOMAIN jobs'
              /\ jobs[j].status = "failed"
              /\ jobs[j].error_count > max_retries
              /\ jobs'[j].status # "failed")
                 => \/ last'.op = "event" /\ last'.result = "executed" /\ last'.id = j
                    \/ last'.op = "add_job" /\ last'.id = j]_vars

\* C16: jobs survive a restart of the process: after a new scheduler is
\* constructed over the same job store, every job that was registered and not
\* removed before is in the registry again (get_job_info finds it, list_jobs
\* lists it), and its store entry has a next run time.
C16_JobsSurviveRestart ==
    [][last'.op = "restart"
          => \A j \in DOMAIN jobs \cap DOMAIN store :
                /\ j \in DOMAIN store'
                /\ ~get_job_info_is_None(j)'
                /\ j \in list_jobs']_vars

\* C17: a date job whose function returns normally executes once: the event
\* of its run leaves status completed and run_count 1, and from then on the
\* job keeps that status and count, no execution of its function is
\* submitted, queued or running, and the store holds no entry that could
\* fire it.
C17_DateJobRunsOnce ==
    [][\A j \in DOMAIN jobs \cap DOMAIN jobs' :
          jobs[j].trigger_type = "date"
              => /\ (last'.op = "event" /\ last'.result = "executed" /\ last'.id = j)
                        => /\ jobs'[j].status = "completed"
                           /\ jobs'[j].run_count = 1
                 /\ jobs[j].run_count >= 1
                        => /\ jobs'[j].status = "completed"
                           /\ jobs'[j].run_count = 1
                           /\ \A k \in 1..Len(execs') : execs'[k].func # j
                           /\ \A i \in DOMAIN store' : store'[i].func # j]_vars
C17_Witness ==
    /\ last.op = "event"
    /\ last.result = "executed"
    /\ last.id \in DOMAIN jobs
    /\ jobs[last.id].trigger_type = "date"
    /\ jobs[last.id].status = "completed"
    /\ jobs[last.id].run_count = 1

\* C18: once an interval job that fires every second and always raises has
\* failed, its error_count is at least 1, its status is failed and the store
\* holds exactly one derived retry entry of it, with id {job_id}_retry_1.
C18_OneRetryEntry ==
    \A j \in DOMAIN jobs :
        (\E n \in 1..Len(job_history) :
             job_history[n].job_id = j /\ job_history[n].status = "failed")
            => /\ jobs[j].error_count >= 1
               /\ jobs[j].status = "failed"
               /\ {i \in DOMAIN store : i # j /\ store[i].func = j} = {RetryId(j, 1)}

\* C19: the event of a failed execution of registered job J sets J's status
\* to failed, adds exactly 1 to error_count, sets last_error to the message
\* of the exception and leaves run_count as it was.
C19_FailureEvent ==
    [][\A j \in DOMAIN jobs :
          (last'.op = "event" /\ last'.result = "error" /\ last'.id = j)
              => /\ j \in DOMAIN jobs'
                 /\ jobs'[j].status = "failed"
                 /\ jobs'[j].error_count = jobs[j].error_count + 1
                 /\ jobs'[j].last_error = ErrorMessage
                 /\ jobs'[j].run_count = jobs[j].run_count]_vars
C19_Witness ==
    /\ last.op = "event"
    /\ last.result = "error"
    /\ last.id \in DOMAIN jobs
    /\ jobs[last.id].status = "failed"
    /\ jobs[last.id].run_count = 1
    /\ jobs[last.id].error_count = 2
    /\ jobs[last.id].last_error = ErrorMessage

\* C20: the event of a successful execution of registered job J sets J's
\* status to completed and adds exactly 1 to run_count; error_count and
\* last_error stay as they were, also when the success follows failures.
C20_SuccessEvent ==
    [][\A j \in DOMAIN jobs :
          (last'.op = "event" /\ last'.result = "executed" /\ last'.id = j)
              => /\ j \in DOMAIN jobs'
                 /\ jobs'[j].status = "completed"
                 /\ jobs'[j].run_count = jobs[j].run_count + 1
                 /\ jobs'[j].error_count = jobs[j].error_count
                 /\ jobs'[j].last_error = jobs[j].last_error]_vars
C20_Witness ==
    /\ last.op = "event"
    /\ last.result = "executed"
    /\ last.id \in DOMAIN jobs
    /\ jobs[last.id].status = "completed"
    /\ jobs[last.id].run_count = 1
    /\ jobs[last.id].error_count = 2
    /\ jobs[last.id].last_error = ErrorMessage

\* C21: while a worker executes the function of registered job J, from the
\* start of the execution until its completion event is handled, J's status
\* is running.
C21_RunningStatus ==
    [][\A j \in DOMAIN jobs :
          (last'.op = "started" /\ last'.id = j)
              => /\ j \in DOMAIN jobs'
                 /\ jobs'[j].status = "running"]_vars

\* C22: run_count and error_count of a job never decrease while its id stays
\* in the registry, whatever events are handled and whatever the callers
\* call (add_job with the same id included).
C22_CountersMonotone ==
    [][\A j \in DOMAIN jobs \cap DOMAIN jobs' :
          /\ jobs'[j].run_count >= jobs[j].run_count
          /\ jobs'[j].error_count >= jobs[j].error_count]_vars

C23_Outcome(kind) ==
    IF kind = "error" THEN "failed" ELSE IF kind = "missed" THEN "missed" ELSE "completed"
\* C23: every execution event (success, failure or missed; of a job or of a
\* derived retry entry of it) appends exactly one record to the history,
\* with the event's job id and outcome.
C23_HistoryRecordsEveryEvent ==
    [][last'.op \in {"event", "ignored_event"}
          => /\ Len(job_history') = Len(job_history) + 1
             /\ job_history'[Len(job_history')].job_id = last'.id
             /\ job_history'[Len(job_history')].status = C23_Outcome(last'.result)]_vars

\* C24: after a successful remove_job(J) no derived retry entry of J remains
\* in the store, so the scheduler has nothing left that invokes J's function.
C24_RetryEntriesRemoved ==
    [][\A j \in JobIds :
          (last'.op = "remove_job" /\ last'.id = j /\ last'.result = "True")
              => \A i \in DOMAIN store' : store'[i].func # j]_vars

\* C25: no two executions of the same job's function are being run at once,
\* whether they come from the job's own trigger or from its derived retry
\* entries.
C25_NoOverlapPerFunction ==
    \A k1, k2 \in Busy : execs[k1].func = execs[k2].func => k1 = k2

\* C26: no update is lost when listener calls run concurrently with each
\* other and with the caller's remove_job: once every event is handled, the
\* run_count and error_count of each registered job add up to the number of
\* its handled executions, each of which has one record in the history.
C26_NoLostUpdate ==
    handlers = <<>>
        => \A j \in DOMAIN jobs :
              jobs[j].run_count + jobs[j].error_count
                  = Cardinality({n \in 1..Len(job_history) : job_history[n].job_id = j})

\* The requests of identifier i the limiter holds that lie within the time
\* window, and whether i is blocked at present.
C27_Live(i) ==
    {n \in 1..Len(limiter.requests[i]) : limiter.requests[i][n] >= now - TimeWindow}
C27_Blocked(i) == i \in DOMAIN limiter.blocked /\ limiter.blocked[i] > now

\* C27: is_allowed with max_requests = N and no burst limit, for one
\* identifier: a call made while fewer than N requests lie within the time
\* window is allowed and recorded; the next one is denied with 'Rate limit
\* exceeded', is not recorded and blocks the identifier for block_duration;
\* while the block lasts every call is denied and changes nothing; and
\* reset_limit forgets the identifier's requests and its block.
C27_RateLimit ==
    [][\A i \in Identifiers :
          /\ (last'.op = "is_allowed" /\ last'.id = i) =>
                /\ C27_Blocked(i) =>
                      /\ last'.result = "Rate limit exceeded - temporarily blocked"
                      /\ limiter' = limiter
                /\ (~C27_Blocked(i) /\ Cardinality(C27_Live(i)) < MaxRequests) =>
                      /\ last'.result = "allowed"
                      /\ Len(limiter'.requests[i]) = Cardinality(C27_Live(i)) + 1
                      /\ limiter'.requests[i][Len(limiter'.requests[i])] = now
                      /\ i \notin DOMAIN limiter'.blocked
                /\ (~C27_Blocked(i) /\ Cardinality(C27_Live(i)) >= MaxRequests) =>
                      /\ last'.result = "Rate limit exceeded"
                      /\ Len(limiter'.requests[i]) = Cardinality(C27_Live(i))
                      /\ \A n \in 1..Len(limiter'.requests[i]) :
                            limiter'.requests[i][n]
                                = limiter.requests[i][n + Len(limiter.requests[i])
                                                        - Len(limiter'.requests[i])]
                      /\ i \in DOMAIN limiter'.blocked
                      /\ limiter'.blocked[i] = now + BlockDuration
          /\ (last'.op = "reset_limit" /\ last'.id = i) =>
                /\ limiter'.requests[i] = <<>>
                /\ i \notin DOMAIN limiter'.blocked]_vars

\* The (N+1)-th call within the window was just denied: N requests are
\* recorded and the identifier is blocked for block_duration.
C27_Witness ==
    /\ last.op = "is_allowed"
    /\ last.result = "Rate limit exceeded"
    /\ Len(limiter.requests[last.id]) = MaxRequests
    /\ MaxRequests >= 1
    /\ limiter.blocked[last.id] = now + BlockDuration

\* C28: the rate_limit decorator limits across calls: once the decorated
\* function has run max_requests times for an identifier within the time
\* window, the next call with that identifier raises and does not run it.
C28_DecoratorLimits ==
    [][\A i \in Identifiers :
          (/\ last'.op = "rate_limited_call" /\ last'.id = i
           /\ Cardinality({n \in 1..Len(ran[i]) : ran[i][n] >= now - TimeWindow})
                  >= MaxRequests)
              => /\ last'.result = "Exception"
                 /\ ran' = ran]_vars

\* C29: retry_on_exception with max_attempts = N >= 1: the function is called
\* at most N times; every call before the last one made raised a matching
\* exception; the wrapper has ended exactly when a call returned (its result
\* is returned), when the N-th call raised a matching exception (that
\* exception propagates) or when a call raised a non-matching one (it
\* propagates at once); so it ends after at most N calls, with the function's
\* result or an exception of the function.
C29_RetryTerminates ==
    (MaxAttempts >= 1 /\ retry.pc # "idle") =>
        LET n == Len(retry.calls) IN
        /\ n <= MaxAttempts
        /\ \A m \in 1..(n - 1) : retry.calls[m] = "raises_matching"
        /\ retry.pc # "done" =>
              /\ n < MaxAttempts
              /\ n >= 1 => retry.calls[n] = "raises_matching"
        /\ retry.pc = "done" =>
              /\ n >= 1
              /\ retry.calls[n] = "returns" => retry.outcome = <<"returned", n>>
              /\ retry.calls[n] = "raises_other" => retry.outcome = <<"raised", n>>
              /\ retry.calls[n] = "raises_matching" =>
                    n = MaxAttempts /\ retry.outcome = <<"raised", n>>

\* All N calls raised a matching exception and the N-th one propagated.
C29_Witness ==
    /\ retry.pc = "done"
    /\ Len(retry.calls) = MaxAttempts
    /\ MaxAttempts >= 2
    /\ \A m \in 1..MaxAttempts : retry.calls[m] = "raises_matching"
    /\ retry.outcome = <<"raised", MaxAttempts>>

\* The reviewers' actions that approve, reject or modify a review.
C30_Actions ==
    {"web_approval", "web_modification", "telegram_approve", "telegram_reject",
     "telegram_modify", "telegram_mod_caption", "telegram_text"}

\* C30: a review is processed at most once: an approve, reject or modify
\* action on a review whose status has left pending, on the web or in
\* Telegram, leaves its status, the calls of its callback and the history as
\* they are, and is answered with 'already processed'.
C30_ProcessedOnce ==
    [][\A r \in DOMAIN bot.reviews :
          (last'.op \in C30_Actions /\ last'.id = r /\ bot.reviews[r].status # "pending")
              => /\ bot'.reviews[r].status = bot.reviews[r].status
                 /\ bot'.reviews[r].callback_calls = bot.reviews[r].callback_calls
                 /\ bot'.review_history = bot.review_history
                 /\ last'.result \in {"Review already processed",
                                      "Review not found or already processed."}]_vars
====
